---- MODULE Spec2Model ----
(***************************************************************************)
(* Model of docs/generate_docs.py: the bidirectional link translator       *)
(* (replace_url_with_relpath, replace_relpath_with_url), the path          *)
(* classifier (is_excluded), the repository locator (get_git_repo_name),   *)
(* the hyperlink scanner (hyperlink_reg, replace_hyperlink) and the        *)
(* document walker (preprocess_docs).                                      *)
(*                                                                         *)
(* A path is the sequence of its components; "/a/b" is <<"a", "b">>.       *)
(* A hyperlink target is a record:                                         *)
(*   [kind |-> "url", repo, tag, path, section]  a URL that matches        *)
(*        triton_github_url_reg: group 1 is repo, group 2 is path, and     *)
(*        section is what follows the match ("" or "#...");                *)
(*   [kind |-> "ext"]   a URL that http_reg matches and                    *)
(*        triton_github_url_reg does not (https://example.com/foo/bar);    *)
(*   [kind |-> "rel", path, section]  any other target: a relative path    *)
(*        with what follows its first "#".                                 *)
(* A document's text is a sequence of tokens: the characters the           *)
(* hyperlink pattern tells apart ("!", "[", "]", "(", ")", white space,    *)
(* any other character) and hyperlink targets.                             *)
(***************************************************************************)
EXTENDS Naturals, Sequences, FiniteSets

VARIABLES
    exclude_patterns,   \* conf.exclude_patterns: a set of paths relative to the cwd
    remote,             \* git: work tree |-> basename of origin's URL, or NoRemote
    src_doc_path,       \* translator: the document the hyperlink is in
    hyperlink,          \* translator: the hyperlink target handed in
    res,                \* translator: what the call gave
    back,               \* translator: what converting res back gave
    pcT,                \* translator: "input", "called", "back", or "off"
    content,            \* walker: document path |-> stored text
    original,           \* walker: the stored texts before the first pass
    before,             \* walker: the stored texts when the running pass began
    exclude_paths,      \* walker: the exclude_paths argument of preprocess_docs
    todo,               \* walker: documents of docs_list not yet reached
    cur,                \* walker: the document being processed, as a set
    buf,                \* walker: the local variable content
    written,            \* walker: documents written back in the running pass
    pass,               \* walker: "first" or "second" call of preprocess_docs
    status              \* walker: "idle", "loop", "write", "done", "aborted", "off"

envVars == <<exclude_patterns, remote>>
tVars == <<src_doc_path, hyperlink, res, back, pcT>>
wVars == <<content, original, before, exclude_paths, todo, cur, buf, written, pass, status>>
vars == <<exclude_patterns, remote, src_doc_path, hyperlink, res, back, pcT,
          content, original, before, exclude_paths, todo, cur, buf, written, pass, status>>

\* Longest link path, in components, that the translator is tried on.
MaxPathLen == 2
\* Most link occurrences in one document's text.
MaxItems == 1

-----------------------------------------------------------------------------
(* The file system the program runs in. *)

server_repo_path == <<"server">>
server_docs_dir_path == server_repo_path \o <<"docs">>
\* main() changes the working directory to server/docs before preprocessing.
cwd == server_docs_dir_path

Dirs ==
    { <<>>, <<"server">>, <<"server", "docs">>,
      <<"server", "docs", "sub">>,
      <<"server", "docs", "client">>,
      <<"server", "docs", "client", "sub">> }

Files ==
    { <<"guide.md">>,
      <<"server", "README.md">>,
      <<"server", "docs", "guide.md">>,
      <<"server", "docs", "img.png">>,
      <<"server", "docs", ".md">>,
      <<"server", "docs", "sub", "README.md">>,
      <<"server", "docs", "client", "README.md">> }

-----------------------------------------------------------------------------
(* os.path, on component sequences. *)

Last(p) == p[Len(p)]
Front(p) == SubSeq(p, 1, Len(p) - 1)

RECURSIVE NormFold(_, _, _)
NormFold(p, acc, isabs) ==
    IF p = <<>> THEN acc
    ELSE LET c == Head(p) IN
         IF c = "." THEN NormFold(Tail(p), acc, isabs)
         ELSE IF c # ".." THEN NormFold(Tail(p), Append(acc, c), isabs)
         ELSE IF acc # <<>> /\ Last(acc) # ".." THEN NormFold(Tail(p), Front(acc), isabs)
         ELSE IF isabs THEN NormFold(Tail(p), acc, isabs)
         ELSE NormFold(Tail(p), Append(acc, ".."), isabs)

\* os.path.normpath of a relative path: "" becomes ".".
os_normpath_rel(p) ==
    LET n == NormFold(p, <<>>, FALSE) IN IF n = <<>> THEN <<".">> ELSE n

\* os.path.normpath (and os.path.abspath) of an absolute path.
os_normpath(p) == NormFold(p, <<>>, TRUE)

\* os.path.abspath of a path relative to the working directory.
os_abspath_rel(p) == os_normpath(cwd \o p)

\* os.path.join of an absolute path and relative ones.
os_join(a, b) == a \o b

os_dirname(p) == Front(p)

DropDots(p) == SelectSeq(p, LAMBDA c : c # ".")

RECURSIVE CommonPrefix(_, _)
CommonPrefix(a, b) ==
    IF a = <<>> \/ b = <<>> \/ Head(a) # Head(b) THEN <<>>
    ELSE <<Head(a)>> \o CommonPrefix(Tail(a), Tail(b))

\* os.path.commonpath of two absolute paths: "." components are dropped,
\* ".." components are compared as they stand.
os_commonpath(a, b) == CommonPrefix(DropDots(a), DropDots(b))

os_relpath(path, start) ==
    LET p == os_normpath(path)
        s == os_normpath(start)
        i == Len(CommonPrefix(s, p))
        r == [k \in 1..(Len(s) - i) |-> ".."] \o SubSeq(p, i + 1, Len(p))
    IN  IF r = <<>> THEN <<".">> ELSE r

\* The file a path denotes, as the operating system resolves it: every
\* component but the last is looked up in an existing directory.
RECURSIVE Walk(_, _)
Walk(at, rest) ==
    IF rest = <<>> THEN {at}
    ELSE IF at \notin Dirs THEN {}
    ELSE LET c == Head(rest) IN
         IF c = "." THEN Walk(at, Tail(rest))
         ELSE IF c = ".." THEN Walk(IF at = <<>> THEN at ELSE Front(at), Tail(rest))
         ELSE Walk(Append(at, c), Tail(rest))

Resolve(p) == Walk(<<>>, p)

os_isfile(p) == Resolve(p) \cap Files # {}
os_isdir(p) == Resolve(p) \cap Dirs # {}
os_exists(p) == os_isfile(p) \/ os_isdir(p)

MdNames == {"guide.md", "README.md"}
\* os.path.splitext(p)[1]: a name that is only ".md" has no extension.
os_splitext_ext(p) == IF p # <<>> /\ Last(p) \in MdNames THEN ".md" ELSE ""

-----------------------------------------------------------------------------
(* Path classifier and repository locator. *)

is_excluded_never(file_path) == FALSE

is_excluded(file_path) ==
    \E exclude_pattern \in exclude_patterns :
        os_commonpath(os_normpath(file_path), os_abspath_rel(exclude_pattern))
            = os_abspath_rel(exclude_pattern)

NoRemote == "no remote"
None == "None"

\* The work tree "git -C directory" finds itself in: the clone under
\* docs/client, else the server repository, else none.
WorkTrees == {"server", "client"}
WorkTreeOf(directory) ==
    IF os_commonpath(server_docs_dir_path \o <<"client">>, directory)
           = server_docs_dir_path \o <<"client">> THEN {"client"}
    ELSE IF os_commonpath(server_repo_path, directory) = server_repo_path THEN {"server"}
    ELSE {}

\* remote_url[:-4] when remote_url ends with ".git", then os.path.basename.
StripGit(remote_url) ==
    CASE remote_url = "server.git" -> "server"
      [] remote_url = "client.git" -> "client"
      [] OTHER -> remote_url

\* As get_git_repo_name, but naming the work tree when origin is missing.
get_git_repo_name_of_tree(file_path) ==
    LET tree == WorkTreeOf(os_dirname(file_path))
    IN  IF tree = {} THEN None ELSE CHOOSE t \in tree : TRUE

get_git_repo_name(file_path) ==
    LET directory == os_dirname(file_path)
        tree == WorkTreeOf(directory)
    IN  IF tree = {} THEN None
        ELSE LET remote_url == remote[CHOOSE t \in tree : TRUE]
             IN  IF remote_url = NoRemote THEN None ELSE StripGit(remote_url)

-----------------------------------------------------------------------------
(* The translator. *)

Raise(exc) == [kind |-> "raise", exc |-> exc]

valid_hashtag_of(section) == section \notin {"", "#"}

replace_url_with_relpath(url, doc) ==
    IF url.kind # "url" THEN url
    ELSE
    LET target_repo_name == url.repo
        target_relpath_from_target_repo == os_normpath_rel(url.path)
        valid_hashtag == valid_hashtag_of(url.section)
        target_path ==
            IF target_repo_name = "server"
            THEN os_join(server_repo_path, target_relpath_from_target_repo)
            ELSE os_join(os_join(server_docs_dir_path, <<target_repo_name>>),
                         target_relpath_from_target_repo)
        readme == os_join(target_path, <<"README.md">>)
        rewritten(target) ==
            [kind |-> "rel",
             path |-> os_relpath(target, os_dirname(doc)),
             section |-> url.section]
    IN  IF os_commonpath(server_docs_dir_path, target_path) # server_docs_dir_path
        THEN url
        ELSE IF /\ os_isfile(target_path)
                /\ os_splitext_ext(target_path) = ".md"
                /\ ~is_excluded(target_path)
        THEN rewritten(target_path)
        ELSE IF /\ os_isdir(target_path)
                /\ os_isfile(readme)
                /\ valid_hashtag
                /\ ~is_excluded(readme)
        THEN rewritten(readme)
        ELSE url

\* The condition asserted at line 223.
target_under_repo_always(src_repo_abspath, target_path) == TRUE

target_under_repo(src_repo_abspath, target_path) ==
    os_commonpath(src_repo_abspath, target_path) = src_repo_abspath

replace_relpath_with_url(relpath, doc) ==
    LET section == relpath.section
        valid_hashtag == valid_hashtag_of(section)
        target_path == os_normpath(os_join(os_dirname(doc), relpath.path))
        src_git_repo_name == get_git_repo_name(doc)
    IN  IF src_git_repo_name = None
        THEN Raise("TypeError")
        ELSE
        LET src_repo_abspath ==
                IF src_git_repo_name = "server" THEN server_repo_path
                ELSE os_join(server_docs_dir_path, <<src_git_repo_name>>)
            target_path_from_src_repo == os_relpath(target_path, src_repo_abspath)
        IN  IF ~target_under_repo(src_repo_abspath, target_path)
            THEN Raise("AssertionError")
            ELSE IF /\ os_exists(target_path)
                    /\ \/ /\ os_isdir(target_path)
                          /\ valid_hashtag
                          /\ ~is_excluded(os_join(target_path, <<"README.md">>))
                       \/ /\ os_isfile(target_path)
                          /\ os_splitext_ext(target_path) = ".md"
                          /\ ~is_excluded(target_path)
            THEN relpath
            ELSE [kind |-> "url", repo |-> src_git_repo_name, tag |-> "blob",
                  path |-> target_path_from_src_repo, section |-> section]

\* replace_hyperlink's choice between the two, by http_reg.
translate(hyperlink_str, doc) ==
    IF hyperlink_str.kind \in {"url", "ext"}
    THEN replace_url_with_relpath(hyperlink_str, doc)
    ELSE replace_relpath_with_url(hyperlink_str, doc)

-----------------------------------------------------------------------------
(* The inputs the translator is tried on. *)

Names == {"..", "docs", "client", "sub", "guide.md", "README.md", "img.png"}
Sections == {"", "#", "#sec"}
Repos == {"server", "client", ".."}
Tags == {"blob", "tree"}

PathsUpTo(n) == UNION { [1..k -> Names] : k \in 0..n }

UrlLinks(n) ==
    { [kind |-> "url", repo |-> r, tag |-> t, path |-> p, section |-> s] :
        r \in Repos, t \in Tags, p \in PathsUpTo(n), s \in Sections }
RelLinks(n) ==
    { [kind |-> "rel", path |-> p, section |-> s] : p \in PathsUpTo(n), s \in Sections }
ExtLink == [kind |-> "ext"]
Links(n) == UrlLinks(n) \cup RelLinks(n) \cup {ExtLink}

Docs == { f \in Files : os_commonpath(server_docs_dir_path, f) = server_docs_dir_path
                        /\ os_splitext_ext(f) = ".md" }

ExcludeChoices == { {}, {<<"guide.md">>}, {<<"sub">>}, {<<"client", "sub">>} }
RemoteChoices ==
    { [t \in WorkTrees |-> IF t = "server" THEN s ELSE c] :
        s \in {"server.git"}, c \in {"client", "client.git"} }
    \cup { [t \in WorkTrees |-> IF t = "server" THEN "server.git" ELSE NoRemote],
           [t \in WorkTrees |-> IF t = "server" THEN NoRemote ELSE "client"] }

Nothing == [kind |-> "none"]

WalkerOff ==
    /\ content = <<>> /\ original = <<>> /\ before = <<>>
    /\ exclude_paths = {} /\ todo = {} /\ cur = {} /\ buf = <<>>
    /\ written = {} /\ pass = "first" /\ status = "off"

InitT ==
    /\ exclude_patterns \in ExcludeChoices
    /\ remote \in RemoteChoices
    /\ src_doc_path \in Docs
    /\ hyperlink \in Links(MaxPathLen)
    /\ res = Nothing /\ back = Nothing /\ pcT = "input"
    /\ WalkerOff

CallUrl ==
    /\ pcT = "input" /\ hyperlink.kind \in {"url", "ext"}
    /\ res' = replace_url_with_relpath(hyperlink, src_doc_path)
    /\ pcT' = "called"
    /\ UNCHANGED <<src_doc_path, hyperlink, back>>
    /\ UNCHANGED envVars /\ UNCHANGED wVars

CallRel ==
    /\ pcT = "input" /\ hyperlink.kind = "rel"
    /\ res' = replace_relpath_with_url(hyperlink, src_doc_path)
    /\ pcT' = "called"
    /\ UNCHANGED <<src_doc_path, hyperlink, back>>
    /\ UNCHANGED envVars /\ UNCHANGED wVars

\* The round trip: a relative path that replace_url_with_relpath gave is
\* handed to replace_relpath_with_url, for the same document.
CallBack ==
    /\ pcT = "called" /\ hyperlink.kind = "url" /\ res.kind = "rel"
    /\ back' = replace_relpath_with_url(res, src_doc_path)
    /\ pcT' = "back"
    /\ UNCHANGED <<src_doc_path, hyperlink, res>>
    /\ UNCHANGED envVars /\ UNCHANGED wVars

NextT == CallUrl \/ CallRel \/ CallBack

SpecT == InitT /\ [][NextT]_vars

-----------------------------------------------------------------------------
(* The hyperlink scanner: hyperlink_reg and re.sub, on tokens. *)

Ch(c) == [kind |-> "ch", c |-> c]
BANG == Ch("!")
LB == Ch("[")
RB == Ch("]")
LP == Ch("(")
RP == Ch(")")
SP == Ch(" ")
TX == Ch("t")

\* The first index from i on at which text holds tok; 0 when there is none.
RECURSIVE IndexFrom(_, _, _)
IndexFrom(text, i, tok) ==
    IF i > Len(text) THEN 0
    ELSE IF text[i] = tok THEN i
    ELSE IndexFrom(text, i + 1, tok)

\* The first index from i on that holds no white space (Len(text) + 1 at most).
RECURSIVE SkipSpace(_, _)
SkipSpace(text, i) ==
    IF i <= Len(text) /\ text[i] = SP THEN SkipSpace(text, i + 1) ELSE i

\* The last index up to i that holds no white space.
RECURSIVE LastNonSpace(_, _)
LastNonSpace(text, i) ==
    IF i >= 1 /\ text[i] = SP THEN LastNonSpace(text, i - 1) ELSE i

\* The match of hyperlink_reg that begins at i, as a set: empty, or one record
\* with the ends of the match and of its group 2.
\*   (?<!\!)\[   no "!" before the "[" at i
\*   [^\]]+\]    one token or more up to the first "]"
\*   \s*\(\s*    white space, "(", white space
\*   ([^)]+?)    lazily, one token or more, none of them ")"
\*   (\s*\))     white space and the first ")"
hyperlink_match(text, i) ==
    IF i > Len(text) \/ text[i] # LB \/ (i > 1 /\ text[i - 1] = BANG) THEN {}
    ELSE
    LET j == IndexFrom(text, i + 1, RB) IN
    IF j = 0 \/ j = i + 1 THEN {}
    ELSE
    LET p == SkipSpace(text, j + 1) IN
    IF p > Len(text) \/ text[p] # LP THEN {}
    ELSE
    LET e == IndexFrom(text, p + 1, RP) IN
    IF e = 0 \/ e = p + 1 THEN {}
    ELSE
    LET a == SkipSpace(text, p + 1) IN
        {[start |-> i,
          s2 |-> IF a = e THEN e - 1 ELSE a,
          e2 |-> IF a = e THEN e - 1 ELSE LastNonSpace(text, e - 1),
          end |-> e]}

\* The leftmost match from pos on, as a set.
RECURSIVE search(_, _)
search(text, pos) ==
    IF pos > Len(text) THEN {}
    ELSE IF hyperlink_match(text, pos) # {} THEN hyperlink_match(text, pos)
    ELSE search(text, pos + 1)

\* Every match re.sub finds: leftmost first, none overlapping.
RECURSIVE finditer(_, _)
finditer(text, pos) ==
    LET found == search(text, pos) IN
    IF found = {} THEN {}
    ELSE found \cup finditer(text, (CHOOSE m \in found : TRUE).end + 1)

\* replace_hyperlink: group 1, the translated group 2, group 3.  Group 2 of
\* every document here is one target token.
replace_hyperlink(text, m, src_doc_path_) ==
    LET hyperlink_str == text[m.s2]
        r == translate(hyperlink_str, src_doc_path_)
    IN  IF r.kind = "raise" THEN r
        ELSE [kind |-> "ok",
              text |-> SubSeq(text, m.start, m.s2 - 1) \o <<r>>
                       \o SubSeq(text, m.e2 + 1, m.end)]

\* re.sub(hyperlink_reg, partial(replace_hyperlink, ...), content) from pos
\* on: ok and the new text, or not ok and the text built when the callback
\* raised.
RECURSIVE re_sub(_, _, _)
re_sub(text, pos, doc) ==
    LET found == search(text, pos) IN
    IF found = {} THEN [ok |-> TRUE, out |-> SubSeq(text, pos, Len(text))]
    ELSE
    LET m == CHOOSE x \in found : TRUE
        r == replace_hyperlink(text, m, doc)
        head == SubSeq(text, pos, m.start - 1)
    IN  IF r.kind = "raise" THEN [ok |-> FALSE, out |-> head]
        ELSE LET rest == re_sub(text, m.end + 1, doc)
             IN  [ok |-> rest.ok, out |-> head \o r.text \o rest.out]

scan(text, doc) == re_sub(text, 1, doc)

-----------------------------------------------------------------------------
(* The document walker: preprocess_docs. *)

IsUnder(dir, p) == Len(dir) <= Len(p) /\ SubSeq(p, 1, Len(dir)) = dir

\* find's -name '*.md'.
NameMatchesStarMd(name) == name \in MdNames \cup {".md"}

\* find's -path './<dir>': the path find tests is the start point it was
\* given, server_docs_dir_path, followed by the way down to the entry.
PathTestHolds(entry, dir) == entry = <<".">> \o dir

\* The directories find prunes.
Pruned(paths) ==
    { d \in Dirs : IsUnder(server_docs_dir_path, d)
                   /\ \E dir \in paths : PathTestHolds(d, dir) }

\* The lines of result.stdout, as a set: find prints in directory order.
find_output(paths) ==
    IF paths # {}
    THEN { f \in Files : /\ IsUnder(server_docs_dir_path, f)
                         /\ ~\E d \in Pruned(paths) : IsUnder(d, f)
                         /\ NameMatchesStarMd(Last(f)) }
    ELSE { f \in Files \cup Dirs : IsUnder(server_docs_dir_path, f)
                                   /\ f # <<>> /\ Last(f) = ".md" }

(* The documents the walker is tried on. *)

GuideDoc == <<"server", "docs", "guide.md">>
SubDoc == <<"server", "docs", "sub", "README.md">>
ClientDoc == <<"server", "docs", "client", "README.md">>
DotDoc == <<"server", "docs", ".md">>
WalkerDocs == {GuideDoc, SubDoc, ClientDoc, DotDoc}

UrlGuide ==
    [kind |-> "url", repo |-> "server", tag |-> "blob",
     path |-> <<"docs", "guide.md">>, section |-> ""]
RelImg == [kind |-> "rel", path |-> <<"img.png">>, section |-> ""]
RelUpGuide == [kind |-> "rel", path |-> <<"..", "guide.md">>, section |-> ""]
RelUpUpGuide == [kind |-> "rel", path |-> <<"..", "..", "guide.md">>, section |-> ""]
RelSub == [kind |-> "rel", path |-> <<"sub">>, section |-> "#sec"]
LinkPool == {UrlGuide, RelImg, RelUpGuide, RelUpUpGuide, RelSub}

LinkItem(l) == <<LB, TX, RB, LP, l, RP>>
PaddedLinkItem(l) == <<LB, TX, RB, SP, LP, SP, l, SP, RP>>
ImageItem(l) == <<BANG, LB, TX, RB, LP, l, RP>>
BadgeItem(img, l) == <<LB>> \o ImageItem(img) \o <<RB, LP, l, RP>>

Items ==
    { LinkItem(l) : l \in LinkPool }
    \cup { PaddedLinkItem(RelImg), ImageItem(RelImg), BadgeItem(RelImg, UrlGuide) }

RECURSIVE Flatten(_)
Flatten(items) == IF items = <<>> THEN <<>> ELSE Head(items) \o Flatten(Tail(items))

Texts(n) == { <<TX>> \o Flatten(items) : items \in UNION { [1..k -> Items] : k \in 0..n } }

InitW ==
    /\ exclude_patterns \in { {}, {<<"guide.md">>} }
    /\ remote \in { [t \in WorkTrees |-> IF t = "server" THEN "server.git" ELSE "client.git"],
                    [t \in WorkTrees |-> IF t = "server" THEN "server.git" ELSE NoRemote] }
    /\ exclude_paths \in { {}, {<<"client">>} }
    /\ \E g \in Texts(MaxItems), c \in Texts(1) :
          content = [d \in WalkerDocs |->
                        CASE d = GuideDoc -> g
                          [] d = ClientDoc -> c
                          [] d = DotDoc -> <<TX>> \o LinkItem(UrlGuide)
                          [] OTHER -> <<TX>> \o LinkItem(RelUpGuide)]
    /\ original = content /\ before = content
    /\ todo = {} /\ cur = {} /\ buf = <<>> /\ written = {}
    /\ pass = "first" /\ status = "idle"
    /\ src_doc_path = <<>> /\ hyperlink = Nothing /\ res = Nothing /\ back = Nothing
    /\ pcT = "off"

\* Lines 269-279: find runs and docs_list is built.
Find ==
    /\ status = "idle"
    /\ todo' = find_output(exclude_paths)
    /\ before' = content
    /\ written' = {}
    /\ status' = "loop"
    /\ UNCHANGED <<content, original, exclude_paths, cur, buf, pass>>
    /\ UNCHANGED envVars /\ UNCHANGED tVars

\* Lines 283-284: an excluded document is passed over.
Skip(doc_abspath) ==
    /\ status = "loop" /\ doc_abspath \in todo
    /\ is_excluded(doc_abspath)
    /\ todo' = todo \ {doc_abspath}
    /\ UNCHANGED <<content, original, before, exclude_paths, cur, buf, written, pass, status>>
    /\ UNCHANGED envVars /\ UNCHANGED tVars

\* Lines 286-294: the document is read and re.sub returns.
Transform(doc_abspath) ==
    /\ status = "loop" /\ doc_abspath \in todo /\ doc_abspath \in Files
    /\ ~is_excluded(doc_abspath)
    /\ scan(content[doc_abspath], doc_abspath).ok
    /\ buf' = scan(content[doc_abspath], doc_abspath).out
    /\ cur' = {doc_abspath}
    /\ todo' = todo \ {doc_abspath}
    /\ status' = "write"
    /\ UNCHANGED <<content, original, before, exclude_paths, written, pass>>
    /\ UNCHANGED envVars /\ UNCHANGED tVars

\* As ScanRaises, but with the text built so far written to the document.
ScanRaisesAndWrites(doc_abspath) ==
    /\ status = "loop" /\ doc_abspath \in todo /\ doc_abspath \in Files
    /\ ~is_excluded(doc_abspath)
    /\ ~scan(content[doc_abspath], doc_abspath).ok
    /\ content' = [content EXCEPT
                      ![doc_abspath] = scan(content[doc_abspath], doc_abspath).out]
    /\ cur' = {doc_abspath}
    /\ todo' = todo \ {doc_abspath}
    /\ status' = "aborted"
    /\ UNCHANGED <<original, before, exclude_paths, buf, written, pass>>
    /\ UNCHANGED envVars /\ UNCHANGED tVars

\* Lines 286-294: the document is read and replace_hyperlink raises inside
\* re.sub; nothing catches it, and preprocess_docs ends there.
ScanRaises(doc_abspath) ==
    /\ status = "loop" /\ doc_abspath \in todo /\ doc_abspath \in Files
    /\ ~is_excluded(doc_abspath)
    /\ ~scan(content[doc_abspath], doc_abspath).ok
    /\ cur' = {doc_abspath}
    /\ todo' = todo \ {doc_abspath}
    /\ status' = "aborted"
    /\ UNCHANGED <<content, original, before, exclude_paths, buf, written, pass>>
    /\ UNCHANGED envVars /\ UNCHANGED tVars

\* Lines 296-297: the new text is written back.
WriteBack ==
    /\ status = "write"
    /\ \E doc_abspath \in cur :
          /\ content' = [content EXCEPT ![doc_abspath] = buf]
          /\ written' = written \cup {doc_abspath}
    /\ cur' = {}
    /\ buf' = <<>>
    /\ status' = "loop"
    /\ UNCHANGED <<original, before, exclude_paths, todo, pass>>
    /\ UNCHANGED envVars /\ UNCHANGED tVars

\* The loop of line 282 runs out of documents.
Finish ==
    /\ status = "loop" /\ todo = {}
    /\ status' = "done"
    /\ UNCHANGED <<content, original, before, exclude_paths, todo, cur, buf, written, pass>>
    /\ UNCHANGED envVars /\ UNCHANGED tVars

\* preprocess_docs is called again on the tree the first call left.
SecondPass ==
    /\ status = "done" /\ pass = "first"
    /\ pass' = "second"
    /\ status' = "idle"
    /\ UNCHANGED <<content, original, before, exclude_paths, todo, cur, buf, written>>
    /\ UNCHANGED envVars /\ UNCHANGED tVars

Next ==
    \/ Find
    \/ \E d \in todo : Skip(d)
    \/ \E d \in todo : Transform(d)
    \/ \E d \in todo : ScanRaises(d)
    \/ WriteBack
    \/ Finish
    \/ SecondPass

Spec == InitW /\ [][Next]_vars

-----------------------------------------------------------------------------
(* What the properties speak of. *)

\* Membership of the Exclusion Set: equal to, or below, a member.
InExclusionSet(p) ==
    \E e \in exclude_patterns : IsUnder(os_abspath_rel(e), os_normpath(p))

\* The base directory of the repository a document is in.
RepoBase(doc) ==
    IF IsUnder(server_docs_dir_path \o <<"client">>, doc)
    THEN server_docs_dir_path \o <<"client">>
    ELSE server_repo_path

\* The base directory of the repository a canonical URL names.
UrlBase(repo) ==
    IF repo = "server" THEN server_repo_path ELSE server_docs_dir_path \o <<repo>>

\* The file a hyperlink of a document is about, "." and ".." resolved.
TargetOf(link, doc) ==
    IF link.kind = "url" THEN os_normpath(UrlBase(link.repo) \o link.path)
    ELSE os_normpath(os_dirname(doc) \o link.path)

CanonicalUrl(repo, path, section) ==
    [kind |-> "url", repo |-> repo, tag |-> "blob", path |-> path, section |-> section]

Called == pcT \in {"called", "back"}

\* The targets of the image embeds ![t](target) of a text, in text order.
ImageTargetIndexes(text) ==
    { p \in 1..Len(text) :
        \E i \in 1..Len(text) :
            /\ i + 1 <= Len(text) /\ text[i] = BANG /\ text[i + 1] = LB
            /\ LET j == IndexFrom(text, i + 2, RB)
               IN  /\ j > i + 2 /\ j + 3 <= Len(text)
                   /\ text[j + 1] = LP /\ p = j + 2 /\ text[p + 1] = RP }

RECURSIVE ImageTargetsFrom(_, _)
ImageTargetsFrom(text, p) ==
    IF p > Len(text) THEN <<>>
    ELSE (IF p \in ImageTargetIndexes(text) THEN <<text[p]>> ELSE <<>>)
         \o ImageTargetsFrom(text, p + 1)

ImageTargets(text) == ImageTargetsFrom(text, 1)

\* A relative hyperlink of a document that leaves the document's repository.
Escapes(link, doc) ==
    link.kind = "rel" /\ ~IsUnder(RepoBase(doc), TargetOf(link, doc))

HasEscape(doc) ==
    \E m \in finditer(before[doc], 1) : Escapes(before[doc][m.s2], doc)

\* The scanner was run on the document in the running pass.
Attempted(doc) ==
    /\ status \in {"loop", "write", "done", "aborted"}
    /\ doc \in find_output(exclude_paths) /\ doc \notin todo
    /\ ~is_excluded(doc)

-----------------------------------------------------------------------------
(* The properties. *)

\* C1 (as stated): a second pass of preprocess_docs run after a completed
\* first pass does not fail and leaves every document's text as the first
\* pass left it (every repository having an origin).
C1_SecondPassChangesNothing ==
    (pass = "second" /\ status # "idle" /\ \A t \in WorkTrees : remote[t] # NoRemote)
    => (status # "aborted" /\ content = before)

\* C2 (as stated): a hyperlink whose target is in the Exclusion Set is
\* returned unchanged by the translator, in both directions (calls that fail
\* are left aside here).
C2_ExcludedTargetUnchanged ==
    (Called /\ hyperlink.kind \in {"url", "rel"} /\ res.kind # "raise"
        /\ InExclusionSet(TargetOf(hyperlink, src_doc_path)))
    => res = hyperlink

\* C2 (amended): a hyperlink whose target is in the Exclusion Set is never
\* relative after translation: a canonical URL to it is returned unchanged,
\* and a relative path to it is replaced by the canonical URL of the target
\* in the document's repository, with the fragment kept, unless the call
\* fails.
C2_ExcludedTargetNeverRelative ==
    (Called /\ hyperlink.kind \in {"url", "rel"}
        /\ InExclusionSet(TargetOf(hyperlink, src_doc_path)))
    => \/ hyperlink.kind = "url" /\ res = hyperlink
       \/ hyperlink.kind = "rel" /\ res.kind = "raise"
       \/ /\ hyperlink.kind = "rel" /\ res.kind = "url"
          /\ res.tag = "blob" /\ res.section = hyperlink.section
          /\ UrlBase(res.repo) = RepoBase(src_doc_path)
          /\ TargetOf(res, src_doc_path) = TargetOf(hyperlink, src_doc_path)

C2_Witness ==
    /\ Called /\ hyperlink.kind = "rel" /\ res.kind = "url"
    /\ InExclusionSet(TargetOf(hyperlink, src_doc_path))
    /\ TargetOf(hyperlink, src_doc_path) \in Files

\* C3 (as stated): for a document of the root repository, a relative path
\* that replace_url_with_relpath gave is converted back without a failure,
\* to the URL it came from or to a relative path to the same file.
C3_RoundTrip ==
    (pcT = "back" /\ RepoBase(src_doc_path) = server_repo_path
        /\ get_git_repo_name(src_doc_path) = "server")
    => /\ back.kind # "raise"
       /\ \/ back = hyperlink
          \/ /\ back.kind = "rel"
             /\ TargetOf(back, src_doc_path) = TargetOf(res, src_doc_path)

\* C4 (as stated): in a document of a satellite repository, a relative link
\* with a valid fragment to an existing directory of the repository that
\* holds no README.md is replaced by the canonical URL of the directory.
C4_DirectoryWithoutReadmePromoted ==
    (Called /\ hyperlink.kind = "rel"
        /\ RepoBase(src_doc_path) # server_repo_path
        /\ get_git_repo_name(src_doc_path) = "client"
        /\ hyperlink.section \notin {"", "#"}
        /\ IsUnder(RepoBase(src_doc_path), TargetOf(hyperlink, src_doc_path))
        /\ TargetOf(hyperlink, src_doc_path) \in Dirs
        /\ TargetOf(hyperlink, src_doc_path) \o <<"README.md">> \notin Files)
    => res = CanonicalUrl("client",
                          os_relpath(TargetOf(hyperlink, src_doc_path),
                                     RepoBase(src_doc_path)),
                          hyperlink.section)

\* C5: a relative link that leaves the document's repository makes
\* replace_relpath_with_url fail; the pass ends at that document, and no
\* document after it is processed.
C5_EscapeIsFatal ==
    /\ status # "off" =>
          \A d \in WalkerDocs : \A m \in finditer(before[d], 1) :
              Escapes(before[d][m.s2], d)
              => replace_relpath_with_url(before[d][m.s2], d).kind = "raise"
    /\ \A d \in DOMAIN content :
          (Attempted(d) /\ HasEscape(d)) => (status = "aborted" /\ cur = {d})
    /\ status = "aborted" =>
          /\ ~ENABLED Next
          /\ \A d \in todo : content[d] = before[d] /\ d \notin written

C5_Witness ==
    /\ status = "aborted" /\ todo # {} /\ written # {}
    /\ \E d \in cur : HasEscape(d)

\* C6 (as stated): the targets of the image embeds of a document are the
\* same before and after the scanner's substitution.
C6_ImageTargetsKept ==
    \A d \in written : ImageTargets(content[d]) = ImageTargets(before[d])

\* C7: at every point of a pass the stored text of a document is its text
\* before the pass or the whole result of the scanner on it; when the
\* scanner fails on a document, that document and every later one are as
\* they were before the pass.
C7_NoPartialWrite ==
    /\ \A d \in DOMAIN content :
          \/ content[d] = before[d]
          \/ /\ scan(before[d], d).ok
             /\ content[d] = scan(before[d], d).out
    /\ status = "aborted" => \A d \in cur \cup todo : content[d] = before[d]

C7_Witness ==
    /\ status = "aborted" /\ todo # {}
    /\ \E d \in written : content[d] # before[d]
    /\ \E d \in cur : finditer(before[d], 1) # {}

\* C8: when the repository locator finds no origin for the document,
\* replace_relpath_with_url returns no link, whatever the relative target.
C8_MissingOriginIsFatal ==
    (Called /\ hyperlink.kind = "rel"
        /\ \A t \in WorkTreeOf(os_dirname(src_doc_path)) : remote[t] = NoRemote)
    => res.kind = "raise"

C8_Witness ==
    /\ Called /\ hyperlink.kind = "rel" /\ res = Raise("TypeError")
    /\ RepoBase(src_doc_path) = server_repo_path /\ remote["server"] = NoRemote
    /\ TargetOf(hyperlink, src_doc_path) = GuideDoc

\* C9 (as stated): a completed pass has read, scanned and written back the
\* regular files under the documentation root whose name has the .md
\* extension, but those under a directory of exclude_paths and those
\* is_excluded holds for.
C9_WalkerEnumeration ==
    status = "done" =>
        written = { f \in Files :
                      /\ IsUnder(server_docs_dir_path, f)
                      /\ os_splitext_ext(f) = ".md"
                      /\ ~\E dir \in exclude_paths : IsUnder(server_docs_dir_path \o dir, f)
                      /\ ~InExclusionSet(f) }

\* C10 (as stated): a canonical URL whose target, "." and ".." resolved, is
\* outside the root documentation directory is returned unchanged.
C10_OutOfScopeUnchanged ==
    (Called /\ hyperlink.kind = "url"
        /\ ~IsUnder(server_docs_dir_path, TargetOf(hyperlink, src_doc_path)))
    => res = hyperlink

====
